---- MODULE Spec2Model ----
(***************************************************************************)
(* Model of packages/arcs/src/links.ts (nivo): computeArcLink, the         *)
(* useArcLinks hook with its two useMemo cells, and useArcLinkLabels with  *)
(* its useCallback cell.                                                   *)
(*                                                                         *)
(* Numbers.  Angles are integers counting ticks of pi/8, so PI = 8 and an  *)
(* arc's startAngle / endAngle are even ticks (multiples of pi/4): the     *)
(* division by 2 of line 34 is then exact.  Lengths (radii, offsets) are   *)
(* integers counting half pixels, so the default offset 0.5 is 1.          *)
(* Coordinates are fixed-point integers scaled by Scale (cos and sin are   *)
(* tabulated to 3 decimals), so a length L added to a coordinate is        *)
(* L * Scale.  An optional argument is <<>> when omitted and <<v>> when    *)
(* supplied.                                                               *)
(*                                                                         *)
(* References.  JavaScript arrays and functions are compared by reference  *)
(* (Object.is) in hook dependency lists.  An array or function value here  *)
(* is a record that carries an allocation id next to its (immutable)       *)
(* content, so record equality is reference equality.                      *)
(***************************************************************************)
EXTENDS Integers, Sequences, FiniteSets, TLC

VARIABLES
    input,      \* computeArcLink harness: the arguments of the call
    link,       \* computeArcLink harness: the value returned, or NoValue
    args,       \* hook: the arguments of the latest invocation, or NoValue
    memoCb,     \* useArcLinkLabels: the useCallback cell (lines 164-188)
    memoLinks,  \* useArcLinks: the first useMemo cell (lines 92-107)
    memoOut,    \* useArcLinks: the second useMemo cell (lines 111-118)
    result,     \* hook: the value returned by the latest invocation
    ran12,      \* the latest invocation ran the filter + geometry callback
    ran3,       \* the latest invocation ran the decoration callback
    changed     \* which arguments differ from the previous invocation's

vars == <<input, link, args, memoCb, memoLinks, memoOut, result, ran12, ran3, changed>>

NoValue == [none |-> TRUE]

----------------------------------------------------------------------------
(* Bounds *)

\* arcs' start and end angles range over -MaxStep..MaxStep steps of pi/4
MaxStep == 10
\* largest radius / length tried by the computeArcLink harness
MaxLen == 2
\* longest data array tried by the filtering specification
MaxData == 3

----------------------------------------------------------------------------
(* Numeric primitives *)

\* Math.PI in ticks of pi/8
PI == 8

\* fixed-point scale of coordinates
Scale == 1000

\* cos of a normalized angle (ticks of pi/8), times Scale
CosTable == <<1000, 924, 707, 383, 0, -383, -707, -924,
              -1000, -924, -707, -383, 0, 383, 707, 924>>

\* JavaScript's % : the sign of the result is the sign of the dividend
JsRem(a, m) == IF a >= 0 THEN a % m ELSE -((-a) % m)

\* utils.getNormalizedAngle: angle % 2pi, plus 2pi when negative
getNormalizedAngle(angle) ==
    LET normalizedAngle == JsRem(angle, PI * 2)
    IN  IF normalizedAngle < 0 THEN normalizedAngle + PI * 2 ELSE normalizedAngle

Cos(angle) == CosTable[getNormalizedAngle(angle) + 1]
Sin(angle) == Cos(angle - PI \div 2)

\* @nivo/core positionFromAngle: (cos(angle) * distance, sin(angle) * distance)
positionFromAngle(angle, distance) ==
    [x |-> Cos(angle) * distance, y |-> Sin(angle) * distance]

\* @nivo/core radiansToDegrees: radians * 180 / pi (exact on even ticks)
radiansToDegrees(radians) == (radians * 180) \div PI

Abs(n) == IF n < 0 THEN -n ELSE n

----------------------------------------------------------------------------
(* computeArcLink, lines 27-59 *)

\* mutant: the bisecting angle used without normalization
CenterAngleRaw(arc) ==
    arc.startAngle + (arc.endAngle - arc.startAngle) \div 2 - PI \div 2

\* mutant: the bisecting angle without the -pi/2 rotation
CenterAngleNoRotation(arc) ==
    getNormalizedAngle(arc.startAngle + (arc.endAngle - arc.startAngle) \div 2)

\* lines 33-35
CenterAngle(arc) ==
    getNormalizedAngle(
        arc.startAngle + (arc.endAngle - arc.startAngle) \div 2 - PI \div 2)

\* mutant: inclusive comparisons at the two vertical boundaries
IsAfterInclusive(centerAngle) ==
    centerAngle * 2 <= PI \/ centerAngle * 2 >= PI * 3

\* line 41: centerAngle < Math.PI / 2 || centerAngle > Math.PI * 1.5
IsAfter(centerAngle) ==
    centerAngle * 2 < PI \/ centerAngle * 2 > PI * 3

\* lines 27-59
computeArcLink(arc, offset, diagonalLength, straightLength) ==
    LET centerAngle == CenterAngle(arc)
        point0 == positionFromAngle(centerAngle, arc.outerRadius + offset)
        point1 == positionFromAngle(centerAngle,
                                    arc.outerRadius + offset + diagonalLength)
    IN  IF IsAfter(centerAngle)
        THEN [side   |-> "after",
              points |-> <<point0, point1,
                           [x |-> point1.x + straightLength * Scale, y |-> point1.y]>>]
        ELSE [side   |-> "before",
              points |-> <<point0, point1,
                           [x |-> point1.x - straightLength * Scale, y |-> point1.y]>>]

----------------------------------------------------------------------------
(* Harness of the pure function computeArcLink *)

Angles == {2 * k : k \in -MaxStep..MaxStep}

LinkArcs ==
    [startAngle : Angles, endAngle : Angles, innerRadius : {0}, outerRadius : {0, MaxLen}]

LinkInputs ==
    [arc : LinkArcs, offset : {0, 1}, diagonalLength : {0, MaxLen},
     straightLength : {0, MaxLen}]

HookIdle ==
    /\ args = NoValue
    /\ memoCb = NoValue
    /\ memoLinks = NoValue
    /\ memoOut = NoValue
    /\ result = NoValue
    /\ ran12 = FALSE
    /\ ran3 = FALSE
    /\ changed = {}

InitLink ==
    /\ input \in LinkInputs
    /\ link = NoValue
    /\ HookIdle

ComputeArcLinkCall ==
    /\ link = NoValue
    /\ link' = computeArcLink(input.arc, input.offset, input.diagonalLength,
                              input.straightLength)
    /\ UNCHANGED <<input, args, memoCb, memoLinks, memoOut, result, ran12, ran3, changed>>

NextLink == ComputeArcLinkCall

SpecLink == InitLink /\ [][NextLink]_vars

----------------------------------------------------------------------------
(* useArcLinks, lines 66-119 *)

\* line 71: skipAngle = 0
DefaultSkipAngle == 0
\* line 72: offset = 0.5 (in half pixels)
DefaultOffset == 1

Opt(v, default) == IF v = <<>> THEN default ELSE v[1]

\* object spread {...a, ...b}: the keys of b overwrite those of a
Spread(a, b) ==
    [k \in DOMAIN a \cup DOMAIN b |-> IF k \in DOMAIN b THEN b[k] ELSE a[k]]

\* identity of an object allocated now: different from the one a cell holds
FreshRef(held) == IF held = 1 THEN 2 ELSE 1

\* line 75: the default computeExtraProps, a closure allocated by each
\* invocation that omits the argument
DefaultExtraProps ==
    [kind |-> "default",
     ref  |-> IF memoOut # NoValue /\ memoOut.deps[2].kind = "default"
              THEN FreshRef(memoOut.deps[2].ref) ELSE 1]

\* @nivo/core usePropertyAccessor: memoized on the accessor; a property path
\* reads that property of the datum
usePropertyAccessor(accessor) == [accessor |-> accessor]
CallAccessor(getter, datum) == datum[getter.accessor]

\* @nivo/colors useInheritedColor: memoized on (config, theme); a literal
\* colour, the datum's own colour, or a colour of the theme
useInheritedColor(config, theme) == [config |-> config, theme |-> theme]
CallColor(getter, datum) ==
    IF "literal" \in DOMAIN getter.config THEN getter.config.literal
    ELSE IF "from" \in DOMAIN getter.config THEN datum[getter.config.from]
    ELSE getter.theme[getter.config.theme]

\* lines 165-186: the body of useArcLinkLabels' computeExtraProps; textOffset,
\* getLabel, getLinkColor and getTextColor are the values the closure captured
LabelExtraProps(fn, l) ==
    [x          |-> IF l.side = "before"
                    THEN l.points[3].x - fn.textOffset * Scale
                    ELSE l.points[3].x + fn.textOffset * Scale,
     y          |-> l.points[3].y,
     label      |-> CallAccessor(fn.getLabel, l.data),
     linkColor  |-> CallColor(fn.getLinkColor, l.data),
     textAnchor |-> IF l.side = "before" THEN "end" ELSE "start",
     textColor  |-> CallColor(fn.getTextColor, l.data)]

\* calling a computeExtraProps function value
CallExtraProps(fn, l) ==
    CASE fn.kind = "default" -> <<>>
      [] fn.kind = "tag"     -> [tag |-> l.data.id]
      [] fn.kind = "clobber" -> [side |-> "clobbered", points |-> <<>>,
                                 data |-> [id |-> "nobody"], tag |-> l.data.id]
      [] fn.kind = "labels"  -> LabelExtraProps(fn, l)

\* mutant: strict comparison with skipAngle
KeepsArcStrict(datum, skipAngle) ==
    Abs(radiansToDegrees(datum.arc.endAngle - datum.arc.startAngle)) > skipAngle

\* lines 97-99
KeepsArc(datum, skipAngle) ==
    Abs(radiansToDegrees(datum.arc.endAngle - datum.arc.startAngle)) >= skipAngle

\* lines 94-105: the callback of the first useMemo
ComputeLinks(data, skipAngle, offset, diagonalLength, straightLength) ==
    LET kept == SelectSeq(data, LAMBDA datum : KeepsArc(datum, skipAngle))
    IN  [i \in 1..Len(kept) |->
            Spread(computeArcLink(kept[i].arc, offset, diagonalLength, straightLength),
                   [data |-> kept[i]])]

\* mutant: the link spread first, the extra properties last
DecorateExtraWins(links, computeExtraProps) ==
    [i \in 1..Len(links) |-> Spread(links[i], CallExtraProps(computeExtraProps, links[i]))]

\* lines 113-116: the callback of the second useMemo
Decorate(links, computeExtraProps) ==
    [i \in 1..Len(links) |-> Spread(CallExtraProps(computeExtraProps, links[i]), links[i])]

\* mutant: straightLength missing from the dependency list
LinksDepsNoStraight(data, skipAngle, offset, diagonalLength, straightLength) ==
    <<data, skipAngle, offset, diagonalLength>>

\* line 106
LinksDeps(data, skipAngle, offset, diagonalLength, straightLength) ==
    <<data, skipAngle, offset, diagonalLength, straightLength>>

\* mutant: computeExtraProps missing from the dependency list
ExtraDepsNoFn(links, computeExtraProps) == <<links, [kind |-> "unlisted"]>>

\* mutant: the link list missing from the dependency list
ExtraDepsNoLinks(links, computeExtraProps) == <<[ref |-> 0], computeExtraProps>>

\* line 117
ExtraDeps(links, computeExtraProps) == <<links, computeExtraProps>>

\* React's useMemo / useCallback: the cell keeps its value while every
\* dependency is Object.is-equal to the one it was computed with
MemoHit(cell, deps) == cell # NoValue /\ cell.deps = deps

HeldRef(cell) == IF cell = NoValue THEN 0 ELSE cell.value.ref

\* lines 66-119: one invocation of the hook with arguments a.  The second
\* useMemo reads the links the first one returned (memoLinks'.value).
useArcLinks(a) ==
    LET skipAngle == Opt(a.skipAngle, DefaultSkipAngle)
        offset == Opt(a.offset, DefaultOffset)
        computeExtraProps ==
            IF a.computeExtraProps = <<>> THEN DefaultExtraProps
            ELSE a.computeExtraProps[1]
        deps1 == LinksDeps(a.data, skipAngle, offset, a.diagonalLength, a.straightLength)
    IN  /\ ran12' = ~MemoHit(memoLinks, deps1)
        /\ memoLinks' =
              IF ~ran12' THEN memoLinks
              ELSE [deps  |-> deps1,
                    value |-> [ref   |-> FreshRef(HeldRef(memoLinks)),
                               items |-> ComputeLinks(a.data.items, skipAngle, offset,
                                                      a.diagonalLength,
                                                      a.straightLength)]]
        /\ ran3' = ~MemoHit(memoOut, ExtraDeps(memoLinks'.value, computeExtraProps))
        /\ memoOut' =
              IF ~ran3' THEN memoOut
              ELSE [deps  |-> ExtraDeps(memoLinks'.value, computeExtraProps),
                    value |-> [ref   |-> FreshRef(HeldRef(memoOut)),
                               items |-> Decorate(memoLinks'.value.items,
                                                  computeExtraProps)]]
        /\ result' = memoOut'.value

\* the four geometry parameters are reported as one group
Group(name) ==
    IF name \in {"skipAngle", "offset", "diagonalLength", "straightLength"}
    THEN "geometry" ELSE name

\* which arguments are not Object.is-equal to the previous invocation's
Changed(old, new) ==
    IF old = NoValue THEN {"mount"}
    ELSE {Group(k) : k \in {n \in DOMAIN new : new[n] # old[n]}}

\* a component that calls useArcLinks renders with arguments a
UseArcLinksCall(a) ==
    /\ useArcLinks(a)
    /\ args' = a
    /\ changed' = Changed(args, a)
    /\ UNCHANGED <<input, link, memoCb>>

----------------------------------------------------------------------------
(* useArcLinkLabels, lines 137-198 *)

\* line 143: textOffset = 0
DefaultTextOffset == 0

\* line 187
CallbackDeps(getLabel, getLinkColor, getTextColor) ==
    <<getLabel, getLinkColor, getTextColor>>

\* lines 137-198: one invocation with arguments a (a.theme is what useTheme
\* returns for the component)
UseArcLinkLabelsCall(a) ==
    LET textOffset == Opt(a.textOffset, DefaultTextOffset)
        getLabel == usePropertyAccessor(a.label)
        getLinkColor == useInheritedColor(a.linkColor, a.theme)
        getTextColor == useInheritedColor(a.textColor, a.theme)
        deps == CallbackDeps(getLabel, getLinkColor, getTextColor)
        hit == MemoHit(memoCb, deps)
        computeExtraProps ==
            IF hit THEN memoCb.value
            ELSE [kind |-> "labels", ref |-> FreshRef(HeldRef(memoCb)),
                  textOffset |-> textOffset, getLabel |-> getLabel,
                  getLinkColor |-> getLinkColor, getTextColor |-> getTextColor]
    IN  /\ memoCb' = [deps |-> deps, value |-> computeExtraProps]
        /\ useArcLinks([data |-> a.data, skipAngle |-> a.skipAngle, offset |-> a.offset,
                        diagonalLength |-> a.diagonalLength,
                        straightLength |-> a.straightLength,
                        computeExtraProps |-> <<computeExtraProps>>])
        /\ args' = a
        /\ changed' = Changed(args, a)
        /\ UNCHANGED <<input, link>>

----------------------------------------------------------------------------
(* Specifications of the hooks *)

Datum(id, startAngle, endAngle, color) ==
    [id |-> id, name |-> id, color |-> color,
     arc |-> [startAngle |-> startAngle, endAngle |-> endAngle,
              innerRadius |-> 0, outerRadius |-> 4]]

\* spans of 0, 45, 90 and -90 degrees
DatumA == Datum("a", 2, 2, "red")
DatumB == Datum("b", 0, 2, "green")
DatumC == Datum("c", 6, 10, "blue")
DatumD == Datum("d", -2, -6, "grey")

InitHook ==
    /\ input = NoValue
    /\ link = NoValue
    /\ HookIdle

\* computeExtraProps functions a caller supplies; the two references are
\* two function objects with the same body
CallerFns == {[kind |-> "clobber", ref |-> 1], [kind |-> "clobber", ref |-> 2]}

\* data arrays: two array objects with the same content, one with another
HookData ==
    {[ref |-> 1, items |-> <<DatumB, DatumC>>],
     [ref |-> 2, items |-> <<DatumB, DatumC>>],
     [ref |-> 1, items |-> <<DatumD, DatumA, DatumC>>]}

HookArgs ==
    [data : HookData, skipAngle : {<<>>, <<90>>}, offset : {<<>>, <<2>>},
     diagonalLength : {0, 3}, straightLength : {0, 5},
     computeExtraProps : {<<>>} \cup {<<f>> : f \in CallerFns}]

Next == \E a \in HookArgs : UseArcLinksCall(a)

Spec == InitHook /\ [][Next]_vars

\* every array of at most MaxData data
SeqsUpTo(S, n) == UNION {[1..k -> S] : k \in 0..n}

FilterArgs ==
    [data : [ref : {1}, items : SeqsUpTo({DatumA, DatumB, DatumD}, MaxData)],
     skipAngle : {<<>>, <<45>>}, offset : {<<>>},
     diagonalLength : {3}, straightLength : {5},
     computeExtraProps : {<<[kind |-> "tag", ref |-> 1]>>}]

NextFilter == \E a \in FilterArgs : UseArcLinksCall(a)

SpecFilter == InitHook /\ [][NextFilter]_vars

LabelArgs ==
    [data : [ref : {1}, items : {<<DatumB, DatumC>>, <<DatumD>>}],
     skipAngle : {<<>>}, offset : {<<>>},
     diagonalLength : {3}, straightLength : {5},
     textOffset : {<<>>, <<3>>, <<6>>},
     label : {"id", "color"},
     linkColor : {[from |-> "color"], [theme |-> "grid"]},
     textColor : {[literal |-> "black"], [from |-> "color"]},
     theme : {[grid |-> "silver"]}]

NextLabels == \E a \in LabelArgs : UseArcLinkLabelsCall(a)

SpecLabels == InitHook /\ [][NextLabels]_vars

----------------------------------------------------------------------------
(* Claims about computeArcLink (SpecLink) *)

\* the bisecting angle of the harness input, reduced to [0, 2pi) by the
\* mathematical modulo
BisectingAngle ==
    (input.arc.startAngle + (input.arc.endAngle - input.arc.startAngle) \div 2
        - PI \div 2) % (2 * PI)

\* C7: computeArcLink returns side "after" with point2 = point1 shifted by
\* +straightLength on x exactly when the normalized bisecting angle is < pi/2
\* or > 1.5pi, and otherwise side "before" with point2 = point1 shifted by
\* -straightLength; an angle of exactly pi/2 or 1.5pi yields "before".
C7_SideClassification ==
    link # NoValue =>
        LET point1 == link.points[2]
            point2 == link.points[3]
            shift == input.straightLength * Scale
        IN  /\ IF BisectingAngle * 2 < PI \/ BisectingAngle * 2 > 3 * PI
               THEN /\ link.side = "after"
                    /\ point2 = [x |-> point1.x + shift, y |-> point1.y]
               ELSE /\ link.side = "before"
                    /\ point2 = [x |-> point1.x - shift, y |-> point1.y]
            /\ BisectingAngle * 2 \in {PI, 3 * PI} => link.side = "before"

\* C7 witness: a link computed for a bisecting angle of exactly pi/2, with a
\* straight segment of positive length, classified "before"
C7_Witness ==
    /\ link # NoValue
    /\ BisectingAngle * 2 = PI
    /\ input.straightLength > 0
    /\ link.side = "before"
    /\ link.points[3].x < link.points[2].x

\* C8: for a symmetric arc (startAngle = -span/2, endAngle = span/2, span >= 0)
\* the bisecting angle computeArcLink computes is 1.5pi and the side is "before".
C8_SymmetricArc ==
    (/\ link # NoValue
     /\ input.arc.endAngle >= 0
     /\ input.arc.startAngle = -input.arc.endAngle)
        => /\ CenterAngle(input.arc) * 2 = 3 * PI
           /\ link.side = "before"

\* C8 witness: the link of the symmetric arc of span pi is computed
C8_Witness ==
    /\ link # NoValue
    /\ input.arc.endAngle = PI \div 2
    /\ input.arc.startAngle = -(PI \div 2)
    /\ link.side = "before"

\* C9: the bisecting angle computeArcLink obtains from the normalizer lies in
\* [0, 2pi) for every arc, negative angles and multiples of 2pi included, and
\* one of the two sides is selected.
C9_NormalizedRange ==
    link # NoValue =>
        /\ CenterAngle(input.arc) >= 0
        /\ CenterAngle(input.arc) < 2 * PI
        /\ link.side \in {"before", "after"}

\* C9 witness: a link computed for an arc whose angles are negative and whose
\* rotated bisecting angle is the negative multiple -2pi
C9_Witness ==
    /\ link # NoValue
    /\ input.arc.startAngle < 0
    /\ input.arc.startAngle = input.arc.endAngle
    /\ input.arc.startAngle - PI \div 2 = -(2 * PI)
    /\ CenterAngle(input.arc) = 0

----------------------------------------------------------------------------
(* Claims about useArcLinks (Spec, SpecFilter) *)

\* C2: a key computeExtraProps returns that is also a field of the base link
\* (side, points, data) carries the base link's value in the merged element.
C2_BaseLinkWins ==
    result # NoValue =>
        /\ Len(result.items) = Len(memoLinks.value.items)
        /\ \A i \in 1..Len(result.items) :
              /\ result.items[i].side = memoLinks.value.items[i].side
              /\ result.items[i].points = memoLinks.value.items[i].points
              /\ result.items[i].data = memoLinks.value.items[i].data

\* C2 witness: a non-empty result decorated by a computeExtraProps that
\* returns side, points and data next to a key of its own
C2_Witness ==
    /\ result # NoValue
    /\ args.computeExtraProps # <<>>
    /\ args.computeExtraProps[1].kind = "clobber"
    /\ Len(result.items) > 0
    /\ "tag" \in DOMAIN result.items[1]
    /\ result.items[1].side \in {"before", "after"}

\* the indices of the data whose span in degrees reaches skipAngle
KeptIndices ==
    {i \in 1..Len(args.data.items) :
        LET arc == args.data.items[i].arc
            degrees == ((arc.endAngle - arc.startAngle) * 180) \div PI
        IN  (IF degrees < 0 THEN -degrees ELSE degrees)
                >= Opt(args.skipAngle, DefaultSkipAngle)}

\* the j-th smallest kept index
NthKept(j) ==
    CHOOSE i \in KeptIndices : Cardinality({k \in KeptIndices : k < i}) = j - 1

\* C3: the output holds exactly one element for each input datum whose span in
\* degrees is >= skipAngle, none for any other, in the order of the input.
C3_StableFilter ==
    result # NoValue =>
        /\ Len(result.items) = Cardinality(KeptIndices)
        /\ \A j \in 1..Len(result.items) :
              result.items[j].data = args.data.items[NthKept(j)]

\* C3 witness: of three data with spans of 0, 45 and -90 degrees and a
\* skipAngle of 45, the last two are kept, in order
C3_Witness ==
    /\ result # NoValue
    /\ args.data.items = <<DatumA, DatumB, DatumD>>
    /\ args.skipAngle = <<45>>
    /\ Len(result.items) = 2
    /\ result.items[1].data = DatumB
    /\ result.items[2].data = DatumD

SameLinkArgs(old, new) ==
    /\ new.data = old.data
    /\ new.skipAngle = old.skipAngle
    /\ new.offset = old.offset
    /\ new.diagonalLength = old.diagonalLength
    /\ new.straightLength = old.straightLength

GeometryParamChanged(old, new) ==
    \/ new.skipAngle # old.skipAngle
    \/ new.offset # old.offset
    \/ new.diagonalLength # old.diagonalLength
    \/ new.straightLength # old.straightLength

\* C4: when two consecutive invocations differ only in computeExtraProps, the
\* second does not re-run the filter and geometry pass: the cached link list is
\* reused unchanged and only the decoration pass is recomputed.
C4_OnlyDecorationRecomputed ==
    [][(/\ args # NoValue
        /\ SameLinkArgs(args, args')
        /\ args'.computeExtraProps # args.computeExtraProps)
            => (/\ ~ran12'
                /\ ran3'
                /\ memoLinks' = memoLinks
                /\ memoOut'.deps[1] = memoLinks.value)]_vars

\* C4 witness: an invocation that differed from the previous one only in
\* computeExtraProps re-ran the decoration pass alone
C4_Witness ==
    /\ changed = {"computeExtraProps"}
    /\ ~ran12
    /\ ran3

\* C5 as stated: when a geometry parameter changes between two consecutive
\* invocations while computeExtraProps is unchanged, only stages 1+2 are
\* recomputed on the second invocation.
C5_OnlyGeometryRecomputed ==
    [][(/\ args # NoValue
        /\ GeometryParamChanged(args, args')
        /\ args'.computeExtraProps = args.computeExtraProps)
            => (ran12' /\ ~ran3')]_vars

\* C5 amended: when a geometry parameter changes between two consecutive
\* invocations while computeExtraProps is unchanged, stages 1+2 are recomputed
\* and, the link list being a new array, stage 3 is recomputed as well.
C5_BothStagesRecomputed ==
    [][(/\ args # NoValue
        /\ GeometryParamChanged(args, args')
        /\ args'.computeExtraProps = args.computeExtraProps)
            => (/\ ran12'
                /\ ran3'
                /\ memoLinks'.value # memoLinks.value
                /\ memoOut'.deps[1] = memoLinks'.value)]_vars

\* C5 witness: an invocation that changed geometry parameters only, with the
\* same caller-supplied computeExtraProps, ran both callbacks
C5_Witness ==
    /\ changed = {"geometry"}
    /\ args.computeExtraProps # <<>>
    /\ ran12
    /\ ran3

\* C6: when useArcLinks is invoked twice in a row with identical parameters,
\* neither stage runs a second time and the cached result is returned, whether
\* computeExtraProps is supplied with the same reference or omitted.
C6_IdenticalArgsNoRecompute ==
    [][(args # NoValue /\ args' = args)
            => (~ran12' /\ ~ran3' /\ result' = result)]_vars

\* the uncached computation of lines 94-105 and 113-116 on arguments a
Uncached(a) ==
    Decorate(ComputeLinks(a.data.items, Opt(a.skipAngle, DefaultSkipAngle),
                          Opt(a.offset, DefaultOffset), a.diagonalLength,
                          a.straightLength),
             IF a.computeExtraProps = <<>> THEN [kind |-> "default", ref |-> 0]
             ELSE a.computeExtraProps[1])

\* C10: after any sequence of invocations the value returned equals what the
\* uncached computation produces from the latest invocation's own arguments.
C10_CacheTransparent ==
    result # NoValue => result.items = Uncached(args)

\* C10 witness: an invocation answered from both caches with a non-empty result
C10_Witness ==
    /\ result # NoValue
    /\ changed = {}
    /\ ~ran12
    /\ ~ran3
    /\ Len(result.items) > 0

----------------------------------------------------------------------------
(* Claims about useArcLinkLabels (SpecLabels) *)

\* C1: in the result of every invocation each label with side "after" has
\* textAnchor "start" and x = points[2].x + textOffset, and each label with
\* side "before" has textAnchor "end" and x = points[2].x - textOffset, where
\* textOffset is the value passed to that invocation.
C1_LabelAnchor ==
    result # NoValue =>
        \A i \in 1..Len(result.items) :
            LET label == result.items[i]
                textOffset == Opt(args.textOffset, DefaultTextOffset)
            IN  /\ label.side = "after" =>
                      /\ label.textAnchor = "start"
                      /\ label.x = label.points[3].x + textOffset * Scale
                /\ label.side = "before" =>
                      /\ label.textAnchor = "end"
                      /\ label.x = label.points[3].x - textOffset * Scale

====
